---- MODULE Spec2Model ----
(***************************************************************************)
(* Block-tree terms dictionary reader (BlockTreeTermsReader) of golucene:  *)
(* opening the primary (tim) and index (tip) files, parsing the per-field  *)
(* directory, Terms() and Close().                                         *)
(*                                                                         *)
(* A file is a sequence of cells.  A variable-length integer occupies one  *)
(* cell holding its value; a fixed 8-byte long occupies LongSize cells,    *)
(* big-endian; the codec header occupies HeaderLen cells.                  *)
(***************************************************************************)
EXTENDS Integers, Sequences, FiniteSets, TLC

VARIABLES
    disk,            \* [tim, tip]: the two files of the segment, as cells
    indexDivisor,    \* argument of newBlockTreeTermsReader
    pc,              \* position inside newBlockTreeTermsReader / of the caller
    in,              \* fp.in, the primary input handle
    indexIn,         \* the local indexIn handle
    fp,              \* the BlockTreeTermsReader under construction
    postingsReader,  \* the postings collaborator
    success,         \* local flag read by the deferred cleanup
    numFields,       \* local: field count read from the directory
    i,               \* local: loop index over the directory
    ret,             \* what the call returned: [p, err]
    log,             \* history: the externally visible events, in order
    termsResult,     \* what the caller's last Terms(name) returned
    closeCalls,      \* number of Close() calls made by the caller
    closeRet,        \* what the caller's last Close() returned
    parsed,          \* history: the directory records the loop has read
    written,         \* the terms of the field a SegmentTermsEnum iterates
    enum,            \* the SegmentTermsEnum: [owner, eof, term]
    call,            \* the last call on the SegmentTermsEnum and its outcome
    nexts,           \* history: the outcomes of the Next() calls, in order
    cs,              \* the FastCharStream
    runes,           \* the runes of the stream's input
    rest,            \* the runes the input reader has not returned yet
    chars,           \* history: the outcomes of readChar / beginToken
    lastRefill       \* the stream before and after its last refill

vars == << disk, indexDivisor, pc, in, indexIn, fp, postingsReader, success,
           numFields, i, ret, log, termsResult, closeCalls, closeRet, parsed,
           written, enum, call, nexts, cs, runes, rest, chars, lastRefill >>

(* The state of the reader and the state of a terms enumerator *)
Reader == << disk, indexDivisor, pc, in, indexIn, fp, postingsReader, success,
             numFields, i, ret, log, termsResult, closeCalls, closeRet, parsed >>

Iter == << written, enum, call, nexts >>

(* The state of a character stream of the query parser *)
Stream == << cs, runes, rest, chars, lastRefill >>

----------------------------------------------------------------------------
(* Bounds of the model *)

MaxFields == 2
MaxCloseCalls == 2
SegmentMaxDoc == 2

MaxTermLen == 1

MaxTerms == 2

MaxOrd == 1

BufferSize == 3

MaxRunes == 3

MaxCalls == 5

(* Program constants *)

BTT_OUTPUT_FLAGS_NUM_BITS == 2
BTT_VERSION_START == 0
BTT_VERSION_APPEND_ONLY == 1
BTT_VERSION_CURRENT == BTT_VERSION_APPEND_ONLY
BTT_INDEX_VERSION_START == 0
BTT_INDEX_VERSION_APPEND_ONLY == 1
BTT_INDEX_VERSION_CURRENT == BTT_INDEX_VERSION_APPEND_ONLY
BTT_CODEC_NAME == "BLOCK_TREE_TERMS_DICT"
BTT_INDEX_CODEC_NAME == "BLOCK_TREE_TERMS_INDEX"
LongSize == 8

INDEX_OPT_DOCS_ONLY == "DOCS_ONLY"
INDEX_OPT_DOCS_AND_FREQS == "DOCS_AND_FREQS"

(* fieldInfos.byNumber: field number -> FieldInfo *)
FieldInfos ==
    [n \in 0..2 |->
        CASE n = 0 -> [name |-> "a", indexOptions |-> INDEX_OPT_DOCS_ONLY]
          [] n = 1 -> [name |-> "b", indexOptions |-> INDEX_OPT_DOCS_AND_FREQS]
          [] n = 2 -> [name |-> "c", indexOptions |-> INDEX_OPT_DOCS_AND_FREQS]]

FieldNames == {FieldInfos[n].name : n \in DOMAIN FieldInfos}

(* The zero value of FieldInfo: what a Go map lookup of a missing key gives *)
ZeroFieldInfo == [name |-> "", indexOptions |-> "NONE"]

byNumber(field) ==
    IF field \in DOMAIN FieldInfos THEN FieldInfos[field] ELSE ZeroFieldInfo

----------------------------------------------------------------------------
(* Sequence helpers *)

RECURSIVE Flatten(_)
Flatten(ss) == IF ss = << >> THEN << >> ELSE Head(ss) \o Flatten(Tail(ss))

RECURSIVE SeqsUpTo(_, _)
SeqsUpTo(S, n) ==
    IF n = 0 THEN {<< >>}
    ELSE LET shorter == SeqsUpTo(S, n - 1)
         IN  shorter \cup {Append(s, x) : s \in {t \in shorter : Len(t) = n - 1}, x \in S}

Count(s, e) == Cardinality({k \in 1..Len(s) : s[k] = e})

FirstIndex(s, e) ==
    IF \E k \in 1..Len(s) : s[k] = e
    THEN CHOOSE k \in 1..Len(s) : s[k] = e /\ \A j \in 1..(k-1) : s[j] /= e
    ELSE 0

LastIndex(s, e) ==
    IF \E k \in 1..Len(s) : s[k] = e
    THEN CHOOSE k \in 1..Len(s) : s[k] = e /\ \A j \in (k+1)..Len(s) : s[j] /= e
    ELSE 0

----------------------------------------------------------------------------
(* The files on disk.  Layout of the primary file: header, [inline          *)
(* directory offset], term blocks, directory, [footer with the directory   *)
(* offset]; the index file mirrors it, one trie blob per field.            *)

CodecCell(name) ==
    CASE name = BTT_CODEC_NAME -> 21
      [] name = BTT_INDEX_CODEC_NAME -> 22
      [] OTHER -> 5

Zeros(n) == [k \in 1..n |-> 0]

(* writeLong, big-endian, of a value below 256 *)
WriteLong(v) == Zeros(LongSize - 1) \o << v >>

HeaderKinds ==
    { [codec |-> TRUE,  version |-> 0],
      [codec |-> TRUE,  version |-> 1],
      [codec |-> TRUE,  version |-> 2],
      [codec |-> FALSE, version |-> 1] }

WriteHeader(name, h) ==
    << CodecCell(IF h.codec THEN name ELSE "OTHER"), h.version >>

HeaderLen == Len(WriteHeader(BTT_CODEC_NAME, [codec |-> TRUE, version |-> 0]))

(* The directory records the model opens dictionaries with: two valid ones, *)
(* one for each broken count invariant, one with zero terms and one with   *)
(* an empty root code.                                                     *)
DirRecords ==
    { [field |-> 0, numTerms |-> 1, rootCode |-> << 5 >>,
       sumTotalTermFreq |-> -1, sumDocFreq |-> 2, docCount |-> 1],
      [field |-> 1, numTerms |-> 2, rootCode |-> << 14 >>,
       sumTotalTermFreq |-> SegmentMaxDoc + 1, sumDocFreq |-> SegmentMaxDoc,
       docCount |-> SegmentMaxDoc],
      [field |-> 1, numTerms |-> 1, rootCode |-> << 6 >>,
       sumTotalTermFreq |-> 3, sumDocFreq |-> 2, docCount |-> -1],
      [field |-> 1, numTerms |-> 1, rootCode |-> << 6 >>,
       sumTotalTermFreq |-> SegmentMaxDoc + 2, sumDocFreq |-> SegmentMaxDoc + 1,
       docCount |-> SegmentMaxDoc + 1],
      [field |-> 1, numTerms |-> 1, rootCode |-> << 6 >>,
       sumTotalTermFreq |-> 5, sumDocFreq |-> 0, docCount |-> 1],
      [field |-> 1, numTerms |-> 1, rootCode |-> << 6 >>,
       sumTotalTermFreq |-> 1, sumDocFreq |-> 2, docCount |-> 1],
      [field |-> 2, numTerms |-> 0, rootCode |-> << 4 >>,
       sumTotalTermFreq |-> -1, sumDocFreq |-> 1, docCount |-> 0],
      [field |-> 2, numTerms |-> 1, rootCode |-> << >>,
       sumTotalTermFreq |-> 2, sumDocFreq |-> 2, docCount |-> 1] }

WriteRecord(rec) ==
    << rec.field, rec.numTerms, Len(rec.rootCode) >> \o rec.rootCode
    \o (IF FieldInfos[rec.field].indexOptions = INDEX_OPT_DOCS_ONLY
        THEN << >> ELSE << rec.sumTotalTermFreq >>)
    \o << rec.sumDocFreq, rec.docCount >>

TermBlocks == << 7, 7 >>

InlineLen(version) == IF version < BTT_VERSION_APPEND_ONLY THEN LongSize ELSE 0

TimDirOffset(h) == HeaderLen + InlineLen(h.version) + Len(TermBlocks)

TimFile(h, recs, nf) ==
    LET dir == << nf >> \o Flatten([k \in 1..Len(recs) |-> WriteRecord(recs[k])])
    IN  WriteHeader(BTT_CODEC_NAME, h)
        \o (IF h.version < BTT_VERSION_APPEND_ONLY
            THEN WriteLong(TimDirOffset(h)) ELSE << >>)
        \o TermBlocks \o dir
        \o (IF h.version < BTT_VERSION_APPEND_ONLY
            THEN << >> ELSE WriteLong(TimDirOffset(h)))

TipDirOffset(h, recs) == HeaderLen + InlineLen(h.version) + Len(recs)

TipFile(h, recs) ==
    LET first == HeaderLen + InlineLen(h.version)
    IN  WriteHeader(BTT_INDEX_CODEC_NAME, h)
        \o (IF h.version < BTT_INDEX_VERSION_APPEND_ONLY
            THEN WriteLong(TipDirOffset(h, recs)) ELSE << >>)
        \o [k \in 1..Len(recs) |-> 9]
        \o [k \in 1..Len(recs) |-> first + k - 1]
        \o (IF h.version < BTT_INDEX_VERSION_APPEND_ONLY
            THEN << >> ELSE WriteLong(TipDirOffset(h, recs)))

----------------------------------------------------------------------------
(* store.IndexInput: reads at a position of a file *)

IOFail(pos) == [ok |-> FALSE, v |-> 0, pos |-> pos]

(* ReadVInt / ReadVLong: one cell *)
ReadVInt(f, pos) ==
    IF pos >= 0 /\ pos < Len(f)
    THEN [ok |-> TRUE, v |-> f[pos + 1], pos |-> pos + 1]
    ELSE IOFail(pos)

(* An 8-byte big-endian value; one whose six high bytes are not zero lies  *)
(* beyond every file of the model.                                         *)
BigEndian(cells) ==
    IF \A k \in 1..(LongSize - 2) : cells[k] = 0
    THEN 256 * cells[LongSize - 1] + cells[LongSize]
    ELSE 256 * 256 * 256

ReadLong(f, pos) ==
    IF pos >= 0 /\ pos + LongSize <= Len(f)
    THEN [ok |-> TRUE, v |-> BigEndian(SubSeq(f, pos + 1, pos + LongSize)),
          pos |-> pos + LongSize]
    ELSE IOFail(pos)

ReadBytes(f, pos, n) ==
    IF pos >= 0 /\ pos + n <= Len(f)
    THEN [ok |-> TRUE, v |-> SubSeq(f, pos + 1, pos + n), pos |-> pos + n]
    ELSE IOFail(pos)

(* codec.CheckHeader: the codec name, then a version within [minV, maxV] *)
CheckHeader(f, pos, name, minV, maxV) ==
    LET c == ReadVInt(f, pos)
        v == ReadVInt(f, c.pos)
    IN  IF ~c.ok \/ ~v.ok THEN [ok |-> FALSE, err |-> "io", v |-> 0, pos |-> pos]
        ELSE IF c.v /= CodecCell(name) \/ v.v < minV \/ v.v > maxV
             THEN [ok |-> FALSE, err |-> "corrupt", v |-> 0, pos |-> v.pos]
             ELSE [ok |-> TRUE, err |-> "nil", v |-> v.v, pos |-> v.pos]

----------------------------------------------------------------------------
(* BlockTreeTermsReader: header, directory offset *)

ReadHeaderOf(f, pos, name, minV, maxV, appendOnly, dirOffset) ==
    LET h == CheckHeader(f, pos, name, minV, maxV)
    IN  IF ~h.ok
        THEN [ok |-> FALSE, err |-> h.err, version |-> h.v,
              dirOffset |-> dirOffset, pos |-> h.pos]
        ELSE IF h.v < appendOnly
             THEN LET l == ReadLong(f, h.pos)
                  IN  IF ~l.ok
                      THEN [ok |-> FALSE, err |-> "io", version |-> h.v,
                            dirOffset |-> dirOffset, pos |-> l.pos]
                      ELSE [ok |-> TRUE, err |-> "nil", version |-> h.v,
                            dirOffset |-> l.v, pos |-> l.pos]
             ELSE [ok |-> TRUE, err |-> "nil", version |-> h.v,
                   dirOffset |-> dirOffset, pos |-> h.pos]

readHeader(f, pos, dirOffset) ==
    ReadHeaderOf(f, pos, BTT_CODEC_NAME, BTT_VERSION_START, BTT_VERSION_CURRENT,
                 BTT_VERSION_APPEND_ONLY, dirOffset)

readIndexHeader(f, pos, indexDirOffset) ==
    ReadHeaderOf(f, pos, BTT_INDEX_CODEC_NAME, BTT_INDEX_VERSION_START,
                 BTT_INDEX_VERSION_CURRENT, BTT_INDEX_VERSION_APPEND_ONLY,
                 indexDirOffset)

(* seekDir: the position the input is left at, and the error it returns.   *)
(* fault: the device fails the read of the footer.                         *)
seekDirIgnoringVersion(version, f, dirOffset, fault) ==
    [err |-> "nil", pos |-> dirOffset]

seekDir(version, f, dirOffset, fault) ==
    IF version >= BTT_INDEX_VERSION_APPEND_ONLY
    THEN LET l == IF fault THEN IOFail(Len(f) - LongSize)
                  ELSE ReadLong(f, Len(f) - LongSize)
         IN  IF ~l.ok THEN [err |-> "io", pos |-> l.pos]
             ELSE [err |-> "nil", pos |-> l.v]
    ELSE [err |-> "nil", pos |-> dirOffset]

(* line 119: int(indexVersion) != fp.version *)
VersionNeverMismatch(indexVersion, version) == FALSE

VersionMismatch(indexVersion, version) == indexVersion /= version

----------------------------------------------------------------------------
(* Handles, the fields map, Close and the deferred cleanup *)

NilInput == [open |-> FALSE, pos |-> 0, closes |-> 0]

OpenedInput == [open |-> TRUE, pos |-> 0, closes |-> 0]

EmptyFields == [n \in {} |-> 0]

PutField(fields, name, r) ==
    [n \in (DOMAIN fields) \cup {name} |-> IF n = name THEN r ELSE fields[n]]

(* The state the steps of newBlockTreeTermsReader pass along *)
State(inH, idxH, pr, r, lg) ==
    [in |-> inH, indexIn |-> idxH, postingsReader |-> pr, fp |-> r, log |-> lg]

(* util.Close / util.CloseWhileSuppressingError on one closer: nil is skipped *)
CloseInput(h, what, lg) ==
    IF h.open
    THEN [h |-> [h EXCEPT !.closes = @ + 1], log |-> Append(lg, what)]
    ELSE [h |-> h, log |-> lg]

(* Close's deferred statement: r.fields = make(map[string]FieldReader) *)
KeepFields(fields) == fields

ClearFields(fields) == EmptyFields

(* BlockTreeTermsReader.Close *)
ReaderClose(st) ==
    LET c == CloseInput(st.in, "close:tim", st.log)
    IN  [st EXCEPT !.in = c.h,
                   !.postingsReader.closes = @ + 1,
                   !.fp.fields = ClearFields(@),
                   !.log = Append(c.log, "close:postings")]

(* The deferred function of newBlockTreeTermsReader *)
CleanupWithoutIndex(succ, st) ==
    IF ~succ THEN ReaderClose(st) ELSE st

DeferredCleanup(succ, st) ==
    IF ~succ
    THEN LET c == CloseInput(st.indexIn, "close:tip", st.log)
         IN  ReaderClose([st EXCEPT !.indexIn = c.h, !.log = c.log])
    ELSE st

----------------------------------------------------------------------------
(* One directory record, and the FieldReader built from it *)

RecFail(status) ==
    [status |-> status, field |-> 0, numTerms |-> 0, rootCode |-> << >>,
     sumTotalTermFreq |-> 0, sumDocFreq |-> 0, docCount |-> 0, pos |-> 0,
     readTotalTermFreq |-> FALSE]

(* lines 171-178: the total-term-frequency sum is read unless the field's  *)
(* index options are DOCS_ONLY                                             *)
AlwaysReadsTotalTermFreq(fieldInfo) == TRUE

ReadsTotalTermFreq(fieldInfo) == fieldInfo.indexOptions /= INDEX_OPT_DOCS_ONLY

(* lines 144-186: the reads of one loop iteration from the primary input *)
ReadRecord(f, pos) ==
    LET field == ReadVInt(f, pos)
        numTerms == ReadVInt(f, field.pos)
        numBytes == ReadVInt(f, numTerms.pos)
        rootCode == ReadBytes(f, numBytes.pos, numBytes.v)
        fieldInfo == byNumber(field.v)
        docsOnly == ~ReadsTotalTermFreq(fieldInfo)
        sumTotalTermFreq ==
            IF docsOnly THEN [ok |-> TRUE, v |-> -1, pos |-> rootCode.pos]
            ELSE ReadVInt(f, rootCode.pos)
        sumDocFreq == ReadVInt(f, sumTotalTermFreq.pos)
        docCount == ReadVInt(f, sumDocFreq.pos)
    IN  IF ~field.ok \/ ~numTerms.ok \/ ~numBytes.ok THEN RecFail("io")
        ELSE IF numBytes.v < 0 THEN RecFail("panic")
        ELSE IF ~rootCode.ok \/ ~sumTotalTermFreq.ok \/ ~sumDocFreq.ok
                \/ ~docCount.ok THEN RecFail("io")
        ELSE [status |-> "nil", field |-> field.v, numTerms |-> numTerms.v,
              rootCode |-> rootCode.v, sumTotalTermFreq |-> sumTotalTermFreq.v,
              sumDocFreq |-> sumDocFreq.v, docCount |-> docCount.v,
              pos |-> docCount.pos, readTotalTermFreq |-> ~docsOnly]

(* lines 188-202: the three count checks; TRUE when the record is rejected *)
StatsNeverInvalid(docCount, sumDocFreq, sumTotalTermFreq, maxDoc) == FALSE

StatsInvalid(docCount, sumDocFreq, sumTotalTermFreq, maxDoc) ==
    \/ docCount < 0 \/ docCount > maxDoc
    \/ sumDocFreq < docCount
    \/ (sumTotalTermFreq /= -1 /\ sumTotalTermFreq < sumDocFreq)

(* line 212: _, ok := fp.fields[fieldInfo.name] *)
NeverDuplicate(fields, name) == FALSE

IsDuplicate(fields, name) == name \in DOMAIN fields

ShiftKeepsFlags(n, bits) == n

(* uint64(n) >> bits, kept as an int64.  For a negative n the value is     *)
(* 2^(64-bits) + floor(n / 2^bits); the model keeps it at a width of 32.   *)
ShiftRightUnsigned(n, bits) ==
    IF n >= 0 THEN n \div (2 ^ bits)
    ELSE 2 ^ (32 - bits) + (n \div (2 ^ bits))

(* util.LoadFST on a clone of indexIn seeked to indexStartFP *)
LoadFST(f, indexStartFP, fault) ==
    LET b == ReadVInt(f, indexStartFP)
    IN  IF fault \/ ~b.ok THEN [err |-> "io", index |-> "nil"]
        ELSE [err |-> "nil", index |-> "fst"]

newFieldReader(fieldInfo, numTerms, rootCode, sumTotalTermFreq, sumDocFreq, docCount, indexStartFP, idxH, tip, fault) ==
    LET r == [owner |-> "nil", numTerms |-> numTerms, fieldInfo |-> fieldInfo,
              sumTotalTermFreq |-> sumTotalTermFreq, sumDocFreq |-> sumDocFreq,
              docCount |-> docCount, indexStartFP |-> indexStartFP,
              rootBlockFP |-> 0, rootCode |-> rootCode, index |-> "nil"]
        n == ReadVInt(rootCode, 0)
    IN  IF ~n.ok THEN [r |-> r, err |-> "io"]
        ELSE LET r2 == [r EXCEPT !.rootBlockFP =
                            ShiftRightUnsigned(n.v, BTT_OUTPUT_FLAGS_NUM_BITS)]
             IN  IF idxH.open
                 THEN LET l == LoadFST(tip, indexStartFP, fault)
                      IN  [r |-> [r2 EXCEPT !.index = l.index], err |-> l.err]
                 ELSE [r |-> r2, err |-> "nil"]

(* FieldReader.SumTotalTermFreq / SumDocFreq / DocCount *)
SumTotalTermFreq(r) == r.sumTotalTermFreq

SumDocFreq(r) == r.sumDocFreq

DocCount(r) == r.docCount

(* The zero value of FieldReader *)
ZeroFieldReader ==
    [owner |-> "nil", numTerms |-> 0, fieldInfo |-> ZeroFieldInfo,
     sumTotalTermFreq |-> 0, sumDocFreq |-> 0, docCount |-> 0,
     indexStartFP |-> 0, rootBlockFP |-> 0, rootCode |-> << >>, index |-> "nil"]

(* BlockTreeTermsReader.Terms: ans := r.fields[field]; return &ans *)
Terms(fields, field) ==
    [isNil |-> FALSE,
     value |-> IF field \in DOMAIN fields THEN fields[field] ELSE ZeroFieldReader]

----------------------------------------------------------------------------
(* SegmentTermsEnum.  A call either returns a value or panics; the record  *)
(* of its outcome carries the enumerator the call leaves behind.           *)

Returns(v, e2) == [kind |-> "value", msg |-> "", value |-> v, enum |-> e2]

Panics(m, e2) == [kind |-> "panic", msg |-> m, value |-> << >>, enum |-> e2]

NoCall == [op |-> "none", arg |-> << >>, before |-> << >>]
          @@ [kind |-> "none", msg |-> "", value |-> << >>]

(* lines 381-389: owner is set; eof and term keep their zero values *)
newSegmentTermsEnum(r) == [owner |-> r, eof |-> FALSE, term |-> << >>]

(* FieldReader.Iterator *)
Iterator(r) == newSegmentTermsEnum(r)

(* lines 395-397 *)
SeekExact(e2, target) == Panics("not implemented yet", e2)

(* lines 399-401 *)
SeekCeil(e2, text) == Panics("not implemented yet", e2)

(* lines 403-405: SegmentTermsEnum.Next *)
EnumNext(e2) == Panics("not implemented yet", e2)

TermIgnoringEof(e2) == Returns(e2.term, e2)

(* lines 407-412 *)
Term(e2) ==
    IF e2.eof THEN Panics("assertion error", e2)
    ELSE Returns(e2.term, e2)

(* lines 438-440 *)
SeekExactByPosition(e2, ord) == Panics("not implemented yet", e2)

OrdIsZero(e2) == Returns(0, e2)

(* lines 442-444 *)
Ord(e2) == Panics("not supported!", e2)

(* lines 505-516: owner.owner.owner.postingsReader dereferences the        *)
(* FieldReader's owner; a nil owner is a nil pointer dereference           *)
newFrame(owner, ord) ==
    IF owner.owner.owner = "nil"
    THEN Panics("nil pointer dereference", owner)
    ELSE Returns([owner |-> owner, ord |-> ord,
                  state |-> [totalTermFreq |-> -1]], owner)

----------------------------------------------------------------------------
(* FastCharStream (queryparser/classic/fastCharStream.go).  The buffer is  *)
(* a sequence of BufferSize runes, << >> while it is nil.                  *)

(* lines 19-21 *)
newFastCharStream ==
    [buffer |-> << >>, bufferLength |-> 0, bufferPosition |-> 0,
     tokenStart |-> 0, bufferStart |-> 0]

(* io.RuneReader.ReadRune on a reader with the unread runes rs: the next   *)
(* rune, or rune 0 with io.EOF at the end, or rune 0 with another error    *)
ReadRune(rs, fault) ==
    IF fault THEN [r |-> 0, err |-> "io", rest |-> rs]
    ELSE IF rs = << >> THEN [r |-> 0, err |-> "EOF", rest |-> rs]
    ELSE [r |-> Head(rs), err |-> "nil", rest |-> Tail(rs)]

(* lines 51-56: the loop that fills the space left in the buffer; read     *)
(* number failAt of the loop fails (0: none does)                          *)
RECURSIVE FillLoop(_, _, _, _, _, _, _)
FillLoop(buffer, newPosition, charsRead, limit, err, rs, failAt) ==
    IF charsRead < limit /\ err = "nil"
    THEN LET rr == ReadRune(rs, failAt = charsRead + 1)
         IN  FillLoop([buffer EXCEPT ![newPosition + charsRead + 1] = rr.r],
                      newPosition, charsRead + 1, limit, rr.err, rr.rest, failAt)
    ELSE [buffer |-> buffer, charsRead |-> charsRead, err |-> err, rest |-> rs]

NewPositionKeepsLength(c) == c.bufferLength

(* line 34 *)
NewPosition(c) == c.bufferLength - c.tokenStart

(* line 39: make([]rune, 2048), at the model's buffer size *)
AllocBuffer == [k \in 1..BufferSize |-> 0]

(* line 44: copy(cs.buffer, cs.buffer[cs.tokenStart:cs.tokenStart+newPosition]) *)
ShiftToken(buffer, tokenStart, newPosition) ==
    [k \in 1..Len(buffer) |->
        IF k <= newPosition THEN buffer[tokenStart + k] ELSE buffer[k]]

RefillPanics(c, rs, m) == [cs |-> c, rest |-> rs, err |-> "nil", panic |-> m]

(* lines 33-62 *)
refill(c, rs, failAt) ==
    LET newPosition == NewPosition(c)
    IN  IF c.tokenStart = 0 /\ c.buffer /= << >> /\ c.bufferLength = Len(c.buffer)
        THEN RefillPanics(c, rs, "not implemented yet")
        ELSE IF c.tokenStart /= 0 /\ c.tokenStart + newPosition > Len(c.buffer)
        THEN RefillPanics(c, rs, "slice bounds out of range")
        ELSE LET buf1 == IF c.tokenStart = 0
                         THEN (IF c.buffer = << >> THEN AllocBuffer ELSE c.buffer)
                         ELSE ShiftToken(c.buffer, c.tokenStart, newPosition)
                 c1 == [c EXCEPT !.buffer = buf1,
                                 !.bufferLength = newPosition,
                                 !.bufferPosition = newPosition,
                                 !.bufferStart = @ + c.tokenStart,
                                 !.tokenStart = 0]
                 limit == Len(buf1) - newPosition
                 f == FillLoop(buf1, newPosition, 0, limit, "nil", rs, failAt)
                 c2 == [c1 EXCEPT !.buffer = f.buffer]
             IN  IF (f.err /= "nil" /\ f.err /= "EOF") \/ f.charsRead = 0
                 THEN [cs |-> c2, rest |-> f.rest, err |-> f.err, panic |-> ""]
                 ELSE [cs |-> [c2 EXCEPT !.bufferLength = @ + f.charsRead],
                       rest |-> f.rest, err |-> "nil", panic |-> ""]

NoRefill ==
    [happened |-> FALSE, before |-> newFastCharStream, after |-> newFastCharStream]

(* lines 23-31 *)
readChar(c, rs, failAt) ==
    LET need == c.bufferPosition >= c.bufferLength
        rf == IF need THEN refill(c, rs, failAt)
              ELSE [cs |-> c, rest |-> rs, err |-> "nil", panic |-> ""]
        did == [happened |-> need, before |-> c, after |-> rf.cs]
        c3 == [rf.cs EXCEPT !.bufferPosition = @ + 1]
    IN  IF rf.panic /= ""
        THEN [cs |-> rf.cs, rest |-> rf.rest, r |-> 0, err |-> "nil",
              panic |-> rf.panic, refill |-> did]
        ELSE IF rf.err /= "nil"
        THEN [cs |-> rf.cs, rest |-> rf.rest, r |-> 0, err |-> rf.err,
              panic |-> "", refill |-> did]
        ELSE IF c3.bufferPosition > Len(c3.buffer)
        THEN [cs |-> c3, rest |-> rf.rest, r |-> 0, err |-> "nil",
              panic |-> "index out of range", refill |-> did]
        ELSE [cs |-> c3, rest |-> rf.rest, r |-> c3.buffer[c3.bufferPosition],
              err |-> "nil", panic |-> "", refill |-> did]

(* lines 64-67 *)
beginToken(c, rs, failAt) ==
    readChar([c EXCEPT !.tokenStart = c.bufferPosition], rs, failAt)

(* No character stream in use *)
StreamIdle ==
    /\ cs = newFastCharStream
    /\ runes = << >>
    /\ rest = << >>
    /\ chars = << >>
    /\ lastRefill = NoRefill

----------------------------------------------------------------------------
(* Initial state: a segment on disk and the arguments of the call.  A      *)
(* segment whose headers are tampered with or disagree carries a directory *)
(* of at most one record: the call never reaches its directory.            *)

HeadersGood(th, ih, idx) ==
    /\ th.codec /\ th.version <= BTT_VERSION_CURRENT
    /\ (idx /= -1 => ih = th)

Init ==
    \E th \in HeaderKinds, ih \in HeaderKinds,
       recs \in SeqsUpTo(DirRecords, MaxFields), idx \in {-1, 1} :
      \E nf \in (IF recs = << >> THEN {0, -1} ELSE {Len(recs)}) :
        /\ (idx = -1 => ih = [codec |-> TRUE, version |-> 1])
        /\ (~HeadersGood(th, ih, idx) => Len(recs) <= 1)
        /\ disk = [tim |-> TimFile(th, recs, nf), tip |-> TipFile(ih, recs),
                   timHeader |-> th, tipHeader |-> ih, recs |-> recs]
        /\ indexDivisor = idx
        /\ pc = "start"
        /\ in = NilInput
        /\ indexIn = NilInput
        /\ fp = [version |-> 0, dirOffset |-> 0, indexDirOffset |-> 0,
                 fields |-> EmptyFields]
        /\ postingsReader = [inits |-> 0, closes |-> 0, input |-> "nil"]
        /\ success = FALSE
        /\ numFields = 0
        /\ i = 0
        /\ ret = [p |-> "none", err |-> "none"]
        /\ log = << >>
        /\ termsResult = [called |-> FALSE, field |-> "", present |-> FALSE,
                          afterCloses |-> 0, isNil |-> FALSE,
                          value |-> ZeroFieldReader]
        /\ written = << >>
        /\ enum = newSegmentTermsEnum(ZeroFieldReader)
        /\ call = NoCall
        /\ nexts = << >>
        /\ StreamIdle
        /\ closeCalls = 0
        /\ closeRet = "none"
        /\ parsed = << >>

Here == State(in, indexIn, postingsReader, fp, log)

(* The call continues at pc value next, in state st *)
Continue(st, next) ==
    /\ in' = st.in
    /\ indexIn' = st.indexIn
    /\ postingsReader' = st.postingsReader
    /\ fp' = st.fp
    /\ log' = st.log
    /\ pc' = next
    /\ UNCHANGED << success, ret >>

(* return fp, e: the reader returned beside the error *)
ReturnedReader(e) == IF e = "panic" THEN "none" ELSE "fp"

(* The call returns (or panics) with error e from state st; the deferred   *)
(* function runs first.                                                    *)
Return(st, succ, e) ==
    LET c == DeferredCleanup(succ, st)
    IN  /\ in' = c.in
        /\ indexIn' = c.indexIn
        /\ postingsReader' = c.postingsReader
        /\ fp' = c.fp
        /\ log' = c.log
        /\ success' = succ
        /\ ret' = [p |-> ReturnedReader(e), err |-> e]
        /\ pc' = "returned"

Caller == << termsResult, closeCalls, closeRet >>

(* lines 84-87 *)
OpenPrimary ==
    /\ pc = "start"
    /\ \E fails \in BOOLEAN :
         IF fails
         THEN /\ ret' = [p |-> ReturnedReader("io"), err |-> "io"]
              /\ pc' = "returned"
              /\ UNCHANGED << in, indexIn, postingsReader, fp, log, success >>
         ELSE Continue([Here EXCEPT !.in = OpenedInput,
                                    !.log = Append(@, "open:tim")], "readHeader")
    /\ UNCHANGED << disk, indexDivisor, numFields, i, parsed >>
    /\ UNCHANGED Caller
    /\ UNCHANGED Iter
    /\ UNCHANGED Stream

SkipIndexHeader(divisor) == "postingsInit"

(* line 108: if indexDivisor != -1 the index file is opened and its header *)
(* checked before the postings reader is initialised                       *)
AfterPrimaryHeader(divisor) ==
    IF divisor /= -1 THEN "openIndex" ELSE "postingsInit"

(* lines 102-106 *)
ReadPrimaryHeader ==
    /\ pc = "readHeader"
    /\ \E fault \in BOOLEAN :
         LET h == readHeader(disk.tim, in.pos, fp.dirOffset)
         IN  IF fault THEN Return(Here, FALSE, "io")
             ELSE IF ~h.ok
                  THEN Return([Here EXCEPT !.fp.version = h.version,
                                           !.in.pos = h.pos], FALSE, h.err)
                  ELSE Continue([Here EXCEPT !.fp.version = h.version,
                                             !.fp.dirOffset = h.dirOffset,
                                             !.in.pos = h.pos],
                                AfterPrimaryHeader(indexDivisor))
    /\ UNCHANGED << disk, indexDivisor, numFields, i, parsed >>
    /\ UNCHANGED Caller
    /\ UNCHANGED Iter
    /\ UNCHANGED Stream

(* lines 108-112 *)
OpenIndex ==
    /\ pc = "openIndex"
    /\ \E fails \in BOOLEAN :
         IF fails THEN Return(Here, FALSE, "io")
         ELSE Continue([Here EXCEPT !.indexIn = OpenedInput,
                                    !.log = Append(@, "open:tip")],
                       "readIndexHeader")
    /\ UNCHANGED << disk, indexDivisor, numFields, i, parsed >>
    /\ UNCHANGED Caller
    /\ UNCHANGED Iter
    /\ UNCHANGED Stream

(* lines 114-121 *)
ReadIndexHeader ==
    /\ pc = "readIndexHeader"
    /\ \E fault \in BOOLEAN :
         LET h == readIndexHeader(disk.tip, indexIn.pos, fp.indexDirOffset)
             st == [Here EXCEPT !.fp.indexDirOffset = h.dirOffset,
                                !.indexIn.pos = h.pos]
         IN  IF fault THEN Return(Here, FALSE, "io")
             ELSE IF ~h.ok THEN Return(st, FALSE, h.err)
             ELSE IF VersionMismatch(h.version, fp.version)
                  THEN Return(st, FALSE, "corrupt")
                  ELSE Continue(st, "postingsInit")
    /\ UNCHANGED << disk, indexDivisor, numFields, i, parsed >>
    /\ UNCHANGED Caller
    /\ UNCHANGED Iter
    /\ UNCHANGED Stream

(* lines 124-125: postingsReader.Init(fp.in); fp.in is the handle opened  *)
(* on the primary file                                                     *)
PostingsInit ==
    /\ pc = "postingsInit"
    /\ Continue([Here EXCEPT !.postingsReader.inits = @ + 1,
                             !.postingsReader.input = "tim",
                             !.log = Append(@, "init")], "seekDir")
    /\ UNCHANGED << disk, indexDivisor, numFields, i, parsed >>
    /\ UNCHANGED Caller
    /\ UNCHANGED Iter
    /\ UNCHANGED Stream

(* lines 127-131: both seekDir calls; what they return is dropped *)
SeekDirs ==
    /\ pc = "seekDir"
    /\ \E f1 \in BOOLEAN, f2 \in BOOLEAN :
         LET s1 == seekDir(fp.version, disk.tim, fp.dirOffset, f1)
             s2 == seekDir(fp.version, disk.tip, fp.indexDirOffset, f2)
             l1 == Append(log, IF s1.err = "nil" THEN "seek:tim" ELSE "seekfail:tim")
             l2 == Append(l1, IF s2.err = "nil" THEN "seek:tip" ELSE "seekfail:tip")
         IN  IF indexDivisor /= -1
             THEN Continue([Here EXCEPT !.in.pos = s1.pos, !.indexIn.pos = s2.pos,
                                        !.log = l2], "numFields")
             ELSE /\ ~f2
                  /\ Continue([Here EXCEPT !.in.pos = s1.pos, !.log = l1],
                              "numFields")
    /\ UNCHANGED << disk, indexDivisor, numFields, i, parsed >>
    /\ UNCHANGED Caller
    /\ UNCHANGED Iter
    /\ UNCHANGED Stream

(* lines 133-140 *)
ReadNumFields ==
    /\ pc = "numFields"
    /\ \E fault \in BOOLEAN :
         LET n == ReadVInt(disk.tim, in.pos)
             st == [Here EXCEPT !.in.pos = n.pos, !.log = Append(@, "dirRead")]
         IN  IF fault \/ ~n.ok
             THEN Return(Here, FALSE, "io") /\ UNCHANGED << numFields, i >>
             ELSE IF n.v < 0
                  THEN Return(st, FALSE, "corrupt") /\ numFields' = n.v /\ i' = i
                  ELSE Continue(st, "fields") /\ numFields' = n.v /\ i' = 0
    /\ UNCHANGED << disk, indexDivisor, parsed >>
    /\ UNCHANGED Caller
    /\ UNCHANGED Iter
    /\ UNCHANGED Stream


(* line 142: the loop condition i < numFields *)
LoopStopsEarly(k, n) == k < n - 1

LoopRuns(k, n) == k < n

(* lines 142-223: one iteration of the loop over the directory *)
ReadField ==
    /\ pc = "fields"
    /\ LoopRuns(i, numFields)
    /\ \E fault \in {"none", "read", "index", "fst"} :
         LET rec == ReadRecord(disk.tim, in.pos)
             fieldInfo == byNumber(rec.field)
             idx == IF indexDivisor /= -1 THEN ReadVInt(disk.tip, indexIn.pos)
                    ELSE [ok |-> TRUE, v |-> 0, pos |-> indexIn.pos]
             st == [Here EXCEPT !.in.pos = rec.pos]
             st2 == [st EXCEPT !.indexIn.pos = idx.pos]
             nfr == newFieldReader(fieldInfo, rec.numTerms, rec.rootCode,
                                   rec.sumTotalTermFreq, rec.sumDocFreq,
                                   rec.docCount, idx.v, indexIn, disk.tip,
                                   fault = "fst")
             st3 == [st2 EXCEPT !.fp.fields = PutField(@, fieldInfo.name, nfr.r)]
         IN  /\ (fault \in {"index", "fst"} => indexDivisor /= -1)
             /\ IF fault = "read" \/ rec.status /= "nil"
                THEN /\ Return(Here, FALSE, IF fault = "read" THEN "io" ELSE rec.status)
                     /\ UNCHANGED << i, parsed >>
                ELSE /\ parsed' = Append(parsed, rec)
                     /\ IF StatsInvalid(rec.docCount, rec.sumDocFreq,
                                        rec.sumTotalTermFreq, SegmentMaxDoc)
                        THEN Return(st, FALSE, "corrupt") /\ i' = i
                        ELSE IF fault = "index" \/ ~idx.ok
                        THEN Return(st, FALSE, "io") /\ i' = i
                        ELSE IF IsDuplicate(fp.fields, fieldInfo.name)
                        THEN Return(st2, FALSE, "duplicate") /\ i' = i
                        ELSE IF nfr.err /= "nil"
                        THEN Return(st3, FALSE, nfr.err) /\ i' = i
                        ELSE /\ Continue([st3 EXCEPT !.log = Append(@, "field")],
                                         "fields")
                             /\ i' = i + 1
    /\ UNCHANGED << disk, indexDivisor, numFields >>
    /\ UNCHANGED Caller
    /\ UNCHANGED Iter
    /\ UNCHANGED Stream

(* lines 225-234: after the loop *)
FinishOpen ==
    /\ pc = "fields"
    /\ ~LoopRuns(i, numFields)
    /\ \E closeFails \in BOOLEAN :
         IF indexDivisor /= -1
         THEN LET c == CloseInput(indexIn, "close:tip", log)
                  st == [Here EXCEPT !.indexIn = c.h, !.log = c.log]
              IN  IF closeFails THEN Return(st, FALSE, "io")
                  ELSE Return(st, TRUE, "nil")
         ELSE /\ ~closeFails
              /\ Return(Here, TRUE, "nil")
    /\ UNCHANGED << disk, indexDivisor, numFields, i, parsed >>
    /\ UNCHANGED Caller
    /\ UNCHANGED Iter
    /\ UNCHANGED Stream

----------------------------------------------------------------------------
(* The caller, holding the reader the call returned *)

CallNames == FieldNames \cup {"zz"}

CallTerms(name) ==
    /\ pc = "returned"
    /\ ret.p = "fp"
    /\ termsResult' = [called |-> TRUE, field |-> name,
                       present |-> name \in DOMAIN fp.fields,
                       afterCloses |-> closeCalls]
                      @@ Terms(fp.fields, name)
    /\ UNCHANGED << disk, indexDivisor, pc, in, indexIn, fp, postingsReader,
                    success, numFields, i, ret, log, closeCalls, closeRet,
                    parsed >>
    /\ UNCHANGED Iter
    /\ UNCHANGED Stream

CallClose ==
    /\ pc = "returned"
    /\ ret.p = "fp"
    /\ closeCalls < MaxCloseCalls
    /\ LET c == ReaderClose(Here)
       IN  /\ in' = c.in
           /\ postingsReader' = c.postingsReader
           /\ fp' = c.fp
           /\ log' = c.log
    /\ closeCalls' = closeCalls + 1
    /\ \E e \in {"nil", "io"} : closeRet' = e
    /\ UNCHANGED << disk, indexDivisor, pc, indexIn, success, numFields, i, ret,
                    termsResult, parsed >>
    /\ UNCHANGED Iter
    /\ UNCHANGED Stream

Next ==
    \/ OpenPrimary
    \/ ReadPrimaryHeader
    \/ OpenIndex
    \/ ReadIndexHeader
    \/ PostingsInit
    \/ SeekDirs
    \/ ReadNumFields
    \/ ReadField
    \/ FinishOpen
    \/ \E name \in CallNames : CallTerms(name)
    \/ CallClose

Spec == Init /\ [][Next]_vars

----------------------------------------------------------------------------
(* A SegmentTermsEnum over one field and the calls a caller makes on it.   *)
(* No statement of the source assigns eof or term after construction; the  *)
(* enumerator's fields are drawn as inputs of the methods, the value       *)
(* newSegmentTermsEnum builds among them.                                  *)

Bytes == {0, 255}

TermSet == SeqsUpTo(Bytes, MaxTermLen)

(* unsigned lexicographic byte order *)
BytesLess(a, b) ==
    \E k \in 1..(Len(a) + 1) :
        /\ \A j \in 1..(k - 1) : j <= Len(b) /\ a[j] = b[j]
        /\ \/ k = Len(a) + 1 /\ k <= Len(b)
           \/ k <= Len(a) /\ k <= Len(b) /\ a[k] < b[k]

(* The terms written for a field, in the order the writer stores them *)
WrittenTerms ==
    { s \in SeqsUpTo(TermSet, MaxTerms) :
        \A k \in 1..(Len(s) - 1) : BytesLess(s[k], s[k + 1]) }

TermsOf(s) == { s[k] : k \in 1..Len(s) }

Ords == (-1)..MaxOrd

InitEnum ==
    \E w \in WrittenTerms, eof \in BOOLEAN :
      \E term \in TermsOf(w) \cup {<< >>} :
        /\ written = w
        /\ enum = [Iterator([ZeroFieldReader EXCEPT !.numTerms = Len(w)])
                      EXCEPT !.eof = eof, !.term = term]
        /\ call = NoCall
        /\ nexts = << >>
        /\ StreamIdle
        /\ disk = [tim |-> << >>, tip |-> << >>,
                   timHeader |-> [codec |-> TRUE, version |-> 1],
                   tipHeader |-> [codec |-> TRUE, version |-> 1], recs |-> << >>]
        /\ indexDivisor = -1
        /\ pc = "iterating"
        /\ in = NilInput
        /\ indexIn = NilInput
        /\ fp = [version |-> 0, dirOffset |-> 0, indexDirOffset |-> 0,
                 fields |-> EmptyFields]
        /\ postingsReader = [inits |-> 0, closes |-> 0, input |-> "nil"]
        /\ success = FALSE
        /\ numFields = 0
        /\ i = 0
        /\ ret = [p |-> "none", err |-> "none"]
        /\ log = << >>
        /\ termsResult = [called |-> FALSE, field |-> "", present |-> FALSE,
                          afterCloses |-> 0, isNil |-> FALSE,
                          value |-> ZeroFieldReader]
        /\ closeCalls = 0
        /\ closeRet = "none"
        /\ parsed = << >>

(* The caller makes call op with argument arg; r is what the method did *)
Outcome(op, arg, r) ==
    [op |-> op, arg |-> arg, before |-> enum,
     kind |-> r.kind, msg |-> r.msg, value |-> r.value]

Called(op, arg, r) ==
    /\ pc = "iterating"
    /\ call' = Outcome(op, arg, r)
    /\ enum' = r.enum
    /\ UNCHANGED written
    /\ UNCHANGED Reader
    /\ UNCHANGED Stream

EnumTerm == Called("Term", << >>, Term(enum)) /\ UNCHANGED nexts

EnumOrd == Called("Ord", << >>, Ord(enum)) /\ UNCHANGED nexts

EnumSeekExactByPosition(ord) ==
    Called("SeekExactByPosition", ord, SeekExactByPosition(enum, ord))
    /\ UNCHANGED nexts

EnumSeekExact(target) ==
    Called("SeekExact", target, SeekExact(enum, target)) /\ UNCHANGED nexts

EnumSeekCeil(text) ==
    Called("SeekCeil", text, SeekCeil(enum, text)) /\ UNCHANGED nexts

CallNext ==
    /\ Len(nexts) <= Len(written)
    /\ Called("Next", << >>, EnumNext(enum))
    /\ nexts' = Append(nexts, [before |-> enum, kind |-> call'.kind,
                                value |-> call'.value])

NextEnum ==
    \/ EnumTerm
    \/ EnumOrd
    \/ \E ord \in Ords : EnumSeekExactByPosition(ord)
    \/ \E target \in TermSet : EnumSeekExact(target)
    \/ \E text \in TermSet : EnumSeekCeil(text)
    \/ CallNext

SpecEnum == InitEnum /\ [][NextEnum]_vars

----------------------------------------------------------------------------
(* A FastCharStream over an input of a few runes and the readChar and      *)
(* beginToken calls a caller makes on it.                                  *)

RuneSet == {97, 98}

InitStream ==
    \E input \in SeqsUpTo(RuneSet, MaxRunes) :
        /\ cs = newFastCharStream
        /\ runes = input
        /\ rest = input
        /\ chars = << >>
        /\ lastRefill = NoRefill
        /\ written = << >>
        /\ enum = newSegmentTermsEnum(ZeroFieldReader)
        /\ call = NoCall
        /\ nexts = << >>
        /\ disk = [tim |-> << >>, tip |-> << >>,
                   timHeader |-> [codec |-> TRUE, version |-> 1],
                   tipHeader |-> [codec |-> TRUE, version |-> 1], recs |-> << >>]
        /\ indexDivisor = -1
        /\ pc = "lexing"
        /\ in = NilInput
        /\ indexIn = NilInput
        /\ fp = [version |-> 0, dirOffset |-> 0, indexDirOffset |-> 0,
                 fields |-> EmptyFields]
        /\ postingsReader = [inits |-> 0, closes |-> 0, input |-> "nil"]
        /\ success = FALSE
        /\ numFields = 0
        /\ i = 0
        /\ ret = [p |-> "none", err |-> "none"]
        /\ log = << >>
        /\ termsResult = [called |-> FALSE, field |-> "", present |-> FALSE,
                          afterCloses |-> 0, isNil |-> FALSE,
                          value |-> ZeroFieldReader]
        /\ closeCalls = 0
        /\ closeRet = "none"
        /\ parsed = << >>

(* The caller makes call op; res is what the method did *)
StreamCalled(op, res) ==
    /\ pc = "lexing"
    /\ Len(chars) < MaxCalls
    /\ cs' = res.cs
    /\ rest' = res.rest
    /\ chars' = Append(chars, [op |-> op, r |-> res.r, err |-> res.err,
                               panic |-> res.panic])
    /\ lastRefill' = IF res.refill.happened THEN res.refill ELSE lastRefill
    /\ UNCHANGED runes
    /\ UNCHANGED Reader
    /\ UNCHANGED Iter

CallReadChar ==
    \E failAt \in 0..BufferSize : StreamCalled("readChar", readChar(cs, rest, failAt))

CallBeginToken ==
    \E failAt \in 0..BufferSize :
        StreamCalled("beginToken", beginToken(cs, rest, failAt))

NextStream ==
    \/ CallReadChar
    \/ CallBeginToken

SpecStream == InitStream /\ [][NextStream]_vars


----------------------------------------------------------------------------
(* Properties *)

Happened(e) == Count(log, e) > 0

Failed == pc = "returned" /\ ret.err /= "nil"

Succeeded == pc = "returned" /\ ret.err = "nil"

(* C1: when newBlockTreeTermsReader fails after the primary input was      *)
(* opened, the primary input and, if it was opened, the index input have   *)
(* been closed by the time the call returns: no handle is left open.       *)
C1_NoLeakOnFailure ==
    (Failed /\ in.open) =>
        /\ in.closes >= 1
        /\ (indexIn.open => indexIn.closes >= 1)

C1_Witness ==
    /\ Failed /\ ret.err = "corrupt" /\ closeCalls = 0
    /\ in.open /\ indexIn.open /\ Len(parsed) >= 1
    /\ in.closes = 1 /\ indexIn.closes = 1

(* C2: whenever newBlockTreeTermsReader returns a non-nil error, the       *)
(* reader returned beside it is nil: no partially constructed reader is    *)
(* reachable by the caller.                                                *)
C2_NoReaderOnError == Failed => ret.p /= "fp"

(* C3: with index loading enabled and an index header version that differs *)
(* from the primary one, the call returns an error, and no Field Directory *)
(* Entry has been constructed: the fields map is empty and the primary     *)
(* input never left the header, so no directory byte has been read.        *)
C3_MismatchBeforeFields ==
    (indexDivisor /= -1 /\ disk.tim[HeaderLen] /= disk.tip[HeaderLen]) =>
        /\ pc \in {"start", "readHeader", "openIndex", "readIndexHeader", "returned"}
        /\ (pc = "returned" => ret.err /= "nil")
        /\ fp.fields = EmptyFields
        /\ parsed = << >>
        /\ ~Happened("dirRead") /\ ~Happened("seek:tim") /\ ~Happened("seekfail:tim")
        /\ in.pos <= HeaderLen + LongSize

C3_Witness ==
    /\ Failed /\ ret.err = "corrupt" /\ indexDivisor /= -1
    /\ disk.timHeader.codec /\ disk.tipHeader.codec
    /\ disk.timHeader.version = 0 /\ disk.tipHeader.version = 1
    /\ indexIn.open /\ indexIn.pos = HeaderLen

(* The three count invariants of a Field Directory Entry *)
CountsHold(docCount, sumDocFreq, sumTotalTermFreq) ==
    /\ 0 <= docCount /\ docCount <= SegmentMaxDoc
    /\ sumDocFreq >= docCount
    /\ (sumTotalTermFreq = -1 \/ sumTotalTermFreq >= sumDocFreq)

RecordValid(rec) ==
    CountsHold(rec.docCount, rec.sumDocFreq,
               IF FieldInfos[rec.field].indexOptions = INDEX_OPT_DOCS_ONLY
               THEN -1 ELSE rec.sumTotalTermFreq)

(* The primary input was positioned on the directory the writer wrote *)
DirectoryLocated == Happened("seek:tim")

NameOf(rec) == byNumber(rec.field).name

C6_TermsAbsentIsNil ==
    (termsResult.called /\ ~termsResult.present) => termsResult.isNil

(* C7: over any sequence of Close calls on the reader the call returned    *)
(* (also after a failed open, which closed it already), the primary input  *)
(* and the postings collaborator are each closed exactly once.             *)
C7_CloseExactlyOnce ==
    /\ in.closes <= 1
    /\ postingsReader.closes <= 1
    /\ (closeCalls >= 1 => postingsReader.closes = 1)

(* C8: after Close returns, with nil or with an error, the fields map is   *)
(* empty and Terms(name) yields no entry loaded at open.                   *)
C8_FieldsClearedAfterClose ==
    /\ closeCalls >= 1 => fp.fields = EmptyFields
    /\ (termsResult.called /\ termsResult.afterCloses >= 1) =>
         (~termsResult.present /\ termsResult.value = ZeroFieldReader)

C8_Witness ==
    /\ Succeeded /\ Len(parsed) = 2 /\ Count(log, "field") = 2
    /\ closeCalls = 1 /\ closeRet = "io"
    /\ termsResult.called /\ termsResult.afterCloses = 1
    /\ termsResult.field = NameOf(parsed[1])

(* Where the header of a file of the given version ends, and what the     *)
(* reader has consumed once the header step is over                        *)
AfterHeader(version) ==
    IF version < BTT_VERSION_APPEND_ONLY THEN HeaderLen + LongSize ELSE HeaderLen

(* C9: for a version before APPEND_ONLY the directory offset is the 8-byte *)
(* value read right after the header; for a later version nothing is read  *)
(* after the header and the offset is the 8-byte value read at             *)
(* (length - 8); in both cases the input is seeked to that offset, the one *)
(* the writer stored.  This holds for the primary and for the index file.  *)
C9_DirectoryOffset ==
    /\ pc \in {"openIndex", "readIndexHeader", "postingsInit", "seekDir"} =>
         /\ in.pos = AfterHeader(fp.version)
         /\ (fp.version < BTT_VERSION_APPEND_ONLY =>
               fp.dirOffset = TimDirOffset(disk.timHeader))
    /\ (pc \in {"postingsInit", "seekDir"} /\ indexIn.open) =>
         /\ indexIn.pos = AfterHeader(fp.version)
         /\ (fp.version < BTT_INDEX_VERSION_APPEND_ONLY =>
               fp.indexDirOffset = TipDirOffset(disk.tipHeader, disk.recs))
    /\ (pc = "numFields" /\ Happened("seek:tim")) =>
         in.pos = TimDirOffset(disk.timHeader)
    /\ (pc = "numFields" /\ Happened("seek:tip")) =>
         indexIn.pos = TipDirOffset(disk.tipHeader, disk.recs)

C9_Witness ==
    /\ pc = "numFields" /\ fp.version >= BTT_VERSION_APPEND_ONLY
    /\ Happened("seek:tim") /\ Happened("seek:tip")
    /\ Len(disk.recs) = 2
    /\ in.pos = HeaderLen + Len(TermBlocks)
    /\ indexIn.pos = HeaderLen + Len(disk.recs)
    /\ disk.tim[in.pos + 1] = Len(disk.recs)

(* C10: when the call returns successfully with index loading enabled, the *)
(* index input has been closed, once and only after the last FieldReader   *)
(* was constructed, one per field of the directory, and the primary input  *)
(* is still open.                                                          *)
C10_IndexClosedAfterFields ==
    (Succeeded /\ indexDivisor /= -1 /\ closeCalls = 0) =>
        /\ indexIn.open /\ indexIn.closes = 1
        /\ Count(log, "close:tip") = 1
        /\ LastIndex(log, "field") < FirstIndex(log, "close:tip")
        /\ Count(log, "field") = numFields
        /\ (DirectoryLocated => Count(log, "field") = Len(disk.recs))
        /\ in.open /\ in.closes = 0

C10_Witness ==
    /\ Succeeded /\ indexDivisor /= -1 /\ closeCalls = 0
    /\ Count(log, "field") = 2
    /\ \A n \in DOMAIN fp.fields : fp.fields[n].index = "fst"

(* C11: every Field Directory Entry the call produces has numTerms > 0: a  *)
(* directory record with a term count of 0 or below never results in an    *)
(* entry of the fields map.                                                *)
C11_NoEmptyField ==
    \A n \in DOMAIN fp.fields : fp.fields[n].numTerms > 0

(* C12: an I/O error of the underlying input during the call, the read of  *)
(* the directory offset inside seekDir included, makes the call return     *)
(* that error at once: no step continues after the failed read.            *)
C12_IOErrorReturnsAtOnce ==
    (Happened("seekfail:tim") \/ Happened("seekfail:tip")) =>
        /\ pc = "returned"
        /\ ret.err = "io"
        /\ ~Happened("dirRead")

(* Where the k-th record of the directory ends in the primary file, by the *)
(* writer's layout                                                         *)
RecordEnd(k) ==
    TimDirOffset(disk.timHeader) + 1
    + Len(Flatten([j \in 1..k |-> WriteRecord(disk.recs[j])]))

RecordStart(k) == IF k = 1 THEN TimDirOffset(disk.timHeader) + 1 ELSE RecordEnd(k - 1)

(* C18: while one directory record is parsed, the total-term-frequency sum *)
(* is read from the primary input exactly when the field's index options   *)
(* are not DOCS_ONLY; for a DOCS_ONLY field nothing is consumed for it and *)
(* sumTotalTermFreq is -1; every value read is the one the writer stored   *)
(* (field id, term count, root-code length and bytes, [sumTotalTermFreq],  *)
(* sumDocFreq, docCount), and the record ends where the next one starts.   *)
C18_TotalTermFreqAligned ==
    DirectoryLocated =>
      \A k \in 1..Len(parsed) :
        /\ k <= Len(disk.recs)
        /\ LET w == disk.recs[k]
               docsOnly == FieldInfos[w.field].indexOptions = INDEX_OPT_DOCS_ONLY
           IN  /\ parsed[k].readTotalTermFreq = ~docsOnly
               /\ parsed[k].sumTotalTermFreq =
                    (IF docsOnly THEN -1 ELSE w.sumTotalTermFreq)
               /\ parsed[k].field = w.field
               /\ parsed[k].numTerms = w.numTerms
               /\ parsed[k].rootCode = w.rootCode
               /\ parsed[k].sumDocFreq = w.sumDocFreq
               /\ parsed[k].docCount = w.docCount
               /\ parsed[k].pos = RecordEnd(k)
               /\ parsed[k].pos - RecordStart(k) =
                    5 + Len(w.rootCode) + (IF docsOnly THEN 0 ELSE 1)

C18_Witness ==
    /\ DirectoryLocated /\ Len(parsed) = 2 /\ pc = "fields"
    /\ ~parsed[1].readTotalTermFreq /\ parsed[1].sumTotalTermFreq = -1
    /\ parsed[2].readTotalTermFreq /\ parsed[2].sumTotalTermFreq = SegmentMaxDoc + 1
    /\ parsed[2].docCount = SegmentMaxDoc
    /\ in.pos = RecordEnd(2)

(* C19: the rootBlockFP of every FieldReader is the integer decoded from   *)
(* its rootCode with the two low flag bits dropped: for a non-negative     *)
(* code it is not negative, and code = 4 * rootBlockFP + flags with flags  *)
(* in 0..3, whatever the two flag bits are.                                *)
C19_RootBlockFP ==
    \A n \in DOMAIN fp.fields :
        LET r == fp.fields[n]
        IN  /\ Len(r.rootCode) >= 1
            /\ r.rootCode[1] >= 0 =>
                 /\ r.rootBlockFP >= 0
                 /\ r.rootCode[1] - 4 * r.rootBlockFP \in 0..3

C19_Witness ==
    /\ Succeeded
    /\ \E n1, n2 \in DOMAIN fp.fields :
         /\ fp.fields[n1].rootCode = << 5 >> /\ fp.fields[n1].rootBlockFP = 1
         /\ fp.fields[n2].rootCode = << 14 >> /\ fp.fields[n2].rootBlockFP = 3

(* A header the reader accepts: the expected codec name and a version      *)
(* between START and CURRENT                                               *)
HeaderAccepted(h, minV, maxV) == h.codec /\ minV <= h.version /\ h.version <= maxV

(* What has to be validated before the postings reader is initialised *)
HeadersValidated ==
    /\ HeaderAccepted(disk.timHeader, BTT_VERSION_START, BTT_VERSION_CURRENT)
    /\ indexDivisor /= -1 =>
         /\ HeaderAccepted(disk.tipHeader, BTT_INDEX_VERSION_START,
                           BTT_INDEX_VERSION_CURRENT)
         /\ disk.tipHeader.version = disk.timHeader.version

(* C20: during newBlockTreeTermsReader the postings reader's Init is       *)
(* called at most once, with the primary input; when it is called the      *)
(* primary header and, with index loading enabled, the index header and    *)
(* the equality of the two versions have been validated, and no directory  *)
(* seek, field count or directory record has been read before it; when a   *)
(* header or the version check fails Init is never called.                 *)
C20_PostingsInitOnce ==
    /\ postingsReader.inits <= 1
    /\ Count(log, "init") = postingsReader.inits
    /\ postingsReader.inits = 1 =>
         /\ postingsReader.input = "tim"
         /\ HeadersValidated
         /\ in.open /\ fp.version = disk.timHeader.version
         /\ indexDivisor /= -1 =>
              Happened("open:tip") /\ FirstIndex(log, "open:tip") < FirstIndex(log, "init")
    /\ \A k \in 1..Len(log) :
         log[k] \in {"seek:tim", "seekfail:tim", "seek:tip", "seekfail:tip",
                     "dirRead", "field"} =>
           /\ Happened("init")
           /\ FirstIndex(log, "init") < k
    /\ (parsed /= << >> \/ fp.fields /= EmptyFields) => postingsReader.inits = 1
    /\ ~HeadersValidated => postingsReader.inits = 0 /\ postingsReader.input = "nil"

C20_Witness ==
    /\ Succeeded /\ indexDivisor /= -1
    /\ postingsReader.inits = 1 /\ postingsReader.input = "tim"
    /\ Len(parsed) = 2 /\ Count(log, "field") = 2
    /\ FirstIndex(log, "init") < FirstIndex(log, "dirRead")

----------------------------------------------------------------------------
(* Properties of SegmentTermsEnum, under SpecEnum *)

(* C13: Term() fails, with an invalid-state failure, whenever eof is true; *)
(* when eof is false it returns the enumerator's current term bytes and    *)
(* leaves every field of the enumerator as it was.                         *)
C13_TermChecksEof ==
    call.op = "Term" =>
        IF call.before.eof
        THEN call.kind = "panic" /\ call.msg = "assertion error"
        ELSE /\ call.kind = "value"
             /\ call.value = call.before.term
             /\ enum = call.before

C13_Witness ==
    /\ call.op = "Term" /\ call.before.eof /\ call.before.term = << 255 >>
    /\ call.kind = "panic"

(* C14: Ord() and SeekExactByPosition(ord) fail in every state of the      *)
(* enumerator and for every ord: neither returns a value and neither       *)
(* moves the enumerator.                                                   *)
C14_OrdinalsUnsupported ==
    call.op \in {"Ord", "SeekExactByPosition"} =>
        /\ call.kind = "panic"
        /\ enum = call.before

C14_Witness ==
    /\ call.op = "Ord" /\ call.kind = "panic" /\ call.msg = "not supported!"
    /\ ~enum.eof /\ enum.term = << 0 >> /\ Len(written) = MaxTerms

(* C15: from a fresh enumerator, the k-th Next() returns a term for every  *)
(* k up to numTerms, each term above the one before it in unsigned         *)
(* lexicographic byte order, and the call after the numTerms-th signals    *)
(* the end of the sequence.                                                *)
C15_NextAscending ==
    (nexts /= << >> /\ nexts[1].before = Iterator(enum.owner)) =>
        \A k \in 1..Len(nexts) :
            IF k <= enum.owner.numTerms
            THEN /\ nexts[k].kind = "value"
                 /\ nexts[k].value \in TermsOf(written)
                 /\ k > 1 => BytesLess(nexts[k - 1].value, nexts[k].value)
            ELSE nexts[k].kind = "end"

(* C16: SeekExact(t) returns true exactly when t is one of the terms       *)
(* written for the field, and after it returned true Term() returns t.     *)
C16_SeekExactFindsWritten ==
    call.op = "SeekExact" =>
        /\ call.kind = "value"
        /\ call.value = (call.arg \in TermsOf(written))
        /\ call.value => Term(enum) = Returns(call.arg, enum)

(* the terms of the field that are not below t *)
NotBelow(t) == { u \in TermsOf(written) : u = t \/ BytesLess(t, u) }

(* C17: SeekCeil(t) leaves the enumerator on the smallest written term not *)
(* below t, reporting FOUND when t is a written term and NOT_FOUND when it *)
(* is not; when every written term is below t it reports END and does not *)
(* fail.                                                                   *)
C17_SeekCeilSmallestNotBelow ==
    call.op = "SeekCeil" =>
        /\ call.kind = "value"
        /\ IF NotBelow(call.arg) = {} THEN call.value = "END"
           ELSE /\ call.value = (IF call.arg \in TermsOf(written)
                                 THEN "FOUND" ELSE "NOT_FOUND")
                /\ Term(enum).kind = "value"
                /\ Term(enum).value \in NotBelow(call.arg)
                /\ \A u \in NotBelow(call.arg) :
                     u = Term(enum).value \/ BytesLess(Term(enum).value, u)

----------------------------------------------------------------------------
(* Properties of the reader's fields and handles, under Spec *)

(* C21: after a successful newBlockTreeTermsReader every FieldReader of    *)
(* the fields map has the reader as its owner, and newFrame on the         *)
(* iterator of Terms(name) for a stored field reaches the postings reader  *)
(* through owner.owner.owner and returns a frame.                          *)
C21_OwnerSet ==
    (Succeeded /\ closeCalls = 0) =>
        \A n \in DOMAIN fp.fields :
            /\ fp.fields[n].owner /= "nil"
            /\ newFrame(Iterator(Terms(fp.fields, n).value), 0).kind = "value"

(* C22: the open call closes no handle more than once: neither the primary *)
(* input, nor the index input, nor the postings reader; in particular      *)
(* not the index input when its Close() after the loop returns an error.   *)
C22_NoDoubleClose ==
    closeCalls = 0 =>
        /\ in.closes <= 1
        /\ indexIn.closes <= 1
        /\ postingsReader.closes <= 1

----------------------------------------------------------------------------
(* Properties of FastCharStream, under SpecStream *)

(* C23: for an input of n runes, n below the buffer size, read without an  *)
(* error of the reader, the k-th readChar returns the k-th rune of the     *)
(* input with a nil error for k up to n, and call n + 1 returns an error   *)
(* and no rune; on an empty input the first call already returns an error. *)
C23_ReadCharReturnsInput ==
    (/\ Len(runes) < BufferSize
     /\ \A k \in 1..Len(chars) : chars[k].op = "readChar" /\ chars[k].err /= "io") =>
        \A k \in 1..Len(chars) :
            /\ k <= Len(runes) =>
                 /\ chars[k].panic = ""
                 /\ chars[k].err = "nil"
                 /\ chars[k].r = runes[k]
            /\ k = Len(runes) + 1 =>
                 /\ chars[k].panic = ""
                 /\ chars[k].err /= "nil"

(* the buffer's length: 0 while it is nil *)
BufferLen == Len(cs.buffer)

(* C24: after any sequence of beginToken and readChar calls                *)
(* 0 <= tokenStart <= bufferPosition <= bufferLength <= len(buffer), and   *)
(* every refill leaves tokenStart at 0, moves bufferStart up by the old    *)
(* tokenStart and bufferPosition down by as much, so that bufferStart +    *)
(* bufferPosition is what it was.                                          *)
C24_StreamIndicesOrdered ==
    /\ 0 <= cs.tokenStart
    /\ cs.tokenStart <= cs.bufferPosition
    /\ cs.bufferPosition <= cs.bufferLength
    /\ cs.bufferLength <= BufferLen
    /\ lastRefill.happened =>
         /\ lastRefill.after.tokenStart = 0
         /\ lastRefill.after.bufferStart =
              lastRefill.before.bufferStart + lastRefill.before.tokenStart
         /\ lastRefill.after.bufferPosition =
              lastRefill.before.bufferPosition - lastRefill.before.tokenStart
         /\ lastRefill.after.bufferStart + lastRefill.after.bufferPosition =
              lastRefill.before.bufferStart + lastRefill.before.bufferPosition

C24_Witness ==
    /\ lastRefill.happened
    /\ lastRefill.before.tokenStart = 1 /\ lastRefill.before.bufferPosition = BufferSize
    /\ lastRefill.after.tokenStart = 0 /\ lastRefill.after.bufferStart = 1
    /\ lastRefill.after.bufferPosition = BufferSize - 1
    /\ cs.bufferStart = 1 /\ cs.bufferPosition = BufferSize /\ Len(runes) = MaxRunes
    /\ chars[Len(chars)].panic = "" /\ chars[Len(chars)].err = "nil"

====
